---- MODULE Spec2Model ----
(***************************************************************************)
(* Model of package auth (auth/auth.go): a Config shared by goroutines,    *)
(* its lazily built OAuth2 descriptor c.cfg, and the two methods           *)
(* AuthCodeURL and CheckPermission.  The OAuth2 library, the HTTP          *)
(* transport and the provider are the environment: their answers are       *)
(* chosen nondeterministically from bounded sets.                          *)
(***************************************************************************)
EXTENDS Integers, Sequences, FiniteSets, TLC

(* ------------------------------ bounds --------------------------------- *)

\* longest team list the provider returns in the sequential specification
MaxTeams == 3
\* number of method calls made on the Config in the sequential specification
MaxCalls == 3
\* the same two bounds for the concurrent specification
ConcMaxTeams == 0
ConcMaxCalls == 2

(* ------------------------- the Config's fields ------------------------- *)

Organization == "acme"
Team == "eng"
ClientID == "client-id"
ClientSecret == "client-secret"

\* github.Endpoint of golang.org/x/oauth2/github
GithubEndpoint ==
    [AuthURL |-> "https://github.com/login/oauth/authorize",
     TokenURL |-> "https://github.com/login/oauth/access_token"]

\* the composite literal &oauth2.Config{...} both methods build
NewOAuth2Config ==
    [ClientID |-> ClientID,
     ClientSecret |-> ClientSecret,
     Scopes |-> <<"user:email", "read:org">>,
     Endpoint |-> GithubEndpoint]

\* a freshly allocated oauth2.Config before its fields are written
ZeroOAuth2Config ==
    [ClientID |-> "",
     ClientSecret |-> "",
     Scopes |-> <<>>,
     Endpoint |-> [AuthURL |-> "", TokenURL |-> ""]]

(* --------------------------- the environment --------------------------- *)

Goroutines == {"g1", "g2"}
Codes == {"code1", "code2"}
States == {"st1", "st2"}

\* error values; NoErr is Go's nil error
NoErr == "nil"

\* outcomes of c.cfg.Exchange
ExchangeResponses ==
    { [err |-> NoErr], [err |-> "oauth2: cannot fetch token"] }

\* team names and organization logins the provider may report
Names == {"eng", "Eng", "ops"}
Logins == {"acme", "Acme"}

\* one JSON object of the /user/teams array
JSONTeams == [name : Names, organization : [login : Logins]]

RECURSIVE SeqsUpTo(_, _)
SeqsUpTo(S, n) ==
    IF n = 0 THEN { <<>> }
    ELSE LET shorter == SeqsUpTo(S, n - 1)
         IN  shorter \cup { Append(s, e) : s \in { t \in shorter : Len(t) = n - 1 }, e \in S }

\* bodies of the /user/teams response: not JSON, JSON null, a JSON object
\* (wrong shape for []team), or a JSON array of team objects
TeamBodies(n) ==
    { [kind |-> "malformed"], [kind |-> "null"], [kind |-> "object"] }
        \cup { [kind |-> "array", items |-> s] : s \in SeqsUpTo(JSONTeams, n) }

\* JSON objects of the /user response; the provider may omit keys
JSONUsers ==
    { [login |-> "alice", name |-> "Alice A", avatar_url |-> "http://x/a.png"],
      [login |-> "bob"] }

UserBodies ==
    { [kind |-> "malformed"], [kind |-> "null"], [kind |-> "array"] }
        \cup { [kind |-> "object", obj |-> o] : o \in JSONUsers }

\* what client.Get returns: a transport error, or a response with a body
Responses(bodies) ==
    { [err |-> "transport"] } \cup { [err |-> NoErr, body |-> b] : b \in bodies }

(* ------------------------------ the state ------------------------------ *)

VARIABLES
    descs,       \* the oauth2.Config objects stored into c.cfg, in store order
    seen,        \* seen[g]: the latest store to c.cfg goroutine g has observed (0: nil)
    fieldsSeen,  \* fieldsSeen[g]: the stored objects whose field writes g observes
    frame,       \* frame[g]: the call goroutine g is executing
    calls,       \* number of calls started on the Config
    pastCodes    \* codes passed to CheckPermission calls that have returned

vars == <<descs, seen, fieldsSeen, frame, calls, pastCodes>>

\* a nil *User is <<>>, a non-nil one is <<u>>
NilUser == <<>>

IdleFrame ==
    [pc |-> "idle", op |-> "none", arg |-> "",
     teams |-> <<>>, user |-> NilUser,
     ret |-> <<>>, url |-> <<>>,
     trace |-> <<>>, used |-> <<>>, built |-> 0,
     exch |-> <<>>, gotTeams |-> <<>>, gotUser |-> <<>>,
     opened |-> {}, closed |-> {}]

Init ==
    /\ descs = <<>>
    /\ seen = [g \in Goroutines |-> 0]
    /\ fieldsSeen = [g \in Goroutines |-> {}]
    /\ frame = [g \in Goroutines |-> IdleFrame]
    /\ calls = 0
    /\ pastCodes = {}


(* ------------------------- reading c.cfg ------------------------------ *)

\* c.cfg == nil as goroutine g reads it
CfgIsNil(g) == seen[g] = 0

\* every value of an oauth2.Config whose field writes may or may not have
\* reached the reader: each field is either written or still zero
PartialConfigs(c) ==
    { [ClientID |-> id, ClientSecret |-> sec, Scopes |-> sc, Endpoint |-> ep] :
        id \in {ZeroOAuth2Config.ClientID, c.ClientID},
        sec \in {ZeroOAuth2Config.ClientSecret, c.ClientSecret},
        sc \in {ZeroOAuth2Config.Scopes, c.Scopes},
        ep \in {ZeroOAuth2Config.Endpoint, c.Endpoint} }

\* the values goroutine g can read through its non-nil c.cfg.  The accesses
\* to c.cfg are not synchronized: an object stored by another goroutine is
\* read with its fields as written only once those writes are observed.
ReadCfg(g) ==
    IF seen[g] \in fieldsSeen[g]
    THEN { descs[seen[g]].content }
    ELSE PartialConfigs(descs[seen[g]].content)

(* ------------------------------ decoding ------------------------------ *)

\* the value of key k of JSON object o; a missing key leaves the Go field zero
JSONField(o, k) == IF k \in DOMAIN o THEN o[k] ELSE ""

\* one team object decoded through the struct tags of type team
DecodeTeam(o) ==
    [Name |-> o.name, Organization |-> [Login |-> o.organization.login]]

\* json.NewDecoder(resp.Body).Decode(&teams)
DecodeTeams(body) ==
    CASE body.kind = "malformed" -> [err |-> "json: syntax error", val |-> <<>>]
      [] body.kind = "object" -> [err |-> "json: cannot unmarshal object", val |-> <<>>]
      [] body.kind = "null" -> [err |-> NoErr, val |-> <<>>]
      [] body.kind = "array" ->
            [err |-> NoErr,
             val |-> [i \in 1..Len(body.items) |-> DecodeTeam(body.items[i])]]

\* new(User)
ZeroUser == [Login |-> "", Name |-> "", Avatar |-> ""]

\* json.NewDecoder(resp.Body).Decode(user) through the struct tags of User
DecodeUser(u, body) ==
    CASE body.kind = "malformed" -> [err |-> "json: syntax error", val |-> u]
      [] body.kind = "array" -> [err |-> "json: cannot unmarshal array", val |-> u]
      [] body.kind = "null" -> [err |-> NoErr, val |-> u]
      [] body.kind = "object" ->
            [err |-> NoErr,
             val |-> [Login |-> JSONField(body.obj, "login"),
                      Name |-> JSONField(body.obj, "name"),
                      Avatar |-> JSONField(body.obj, "avatar_url")]]

(* ----------------------- the steps of the methods ---------------------- *)

\* the three values CheckPermission returns
Result(ok, user, err) == [ok |-> ok, user |-> user, err |-> err]

\* one entry of the record of the steps a call has attempted
Step(name, ok) == [step |-> name, ok |-> ok]

\* c.cfg.AuthCodeURL(state, oauth2.AccessTypeOnline) on descriptor d
BuildAuthCodeURL(d, state) ==
    [base |-> d.Endpoint.AuthURL,
     response_type |-> "code",
     client_id |-> d.ClientID,
     scope |-> d.Scopes,
     state |-> state,
     access_type |-> "online"]

\* the last statement of AuthCodeURL
DoAuthCodeURL(f, d) ==
    [f EXCEPT !.pc = "done",
              !.used = <<d>>,
              !.url = <<BuildAuthCodeURL(d, f.arg)>>]

\* DoExchange with the error of the exchange ignored
DoExchangeIgnoreErr(f, d, r) ==
    [f EXCEPT !.pc = "teams",
              !.used = <<d>>,
              !.exch = <<r>>,
              !.trace = Append(@, Step("Exchange", r.err = NoErr))]

\* DoExchange with a failed exchange attempted again
DoExchangeRetry(f, d, r) ==
    [f EXCEPT !.pc = IF r.err # NoErr /\ Len(f.trace) < 2 THEN "exchange"
                     ELSE IF r.err # NoErr THEN "done" ELSE "teams",
              !.used = <<d>>,
              !.exch = <<r>>,
              !.trace = Append(@, Step("Exchange", r.err = NoErr)),
              !.ret = IF r.err # NoErr /\ Len(f.trace) >= 2
                      THEN <<Result(FALSE, NilUser, r.err)>> ELSE @]

\* token exchange and the early return on its error; then c.cfg.Client
DoExchange(f, d, r) ==
    IF r.err # NoErr
    THEN [f EXCEPT !.pc = "done",
                   !.used = <<d>>,
                   !.exch = <<r>>,
                   !.trace = Append(@, Step("Exchange", FALSE)),
                   !.ret = <<Result(FALSE, NilUser, r.err)>>]
    ELSE [f EXCEPT !.pc = "teams",
                   !.used = <<d>>,
                   !.exch = <<r>>,
                   !.trace = Append(@, Step("Exchange", TRUE))]

\* DoFetchTeams with the error of the decoder ignored
DoFetchTeamsIgnoreDecodeErr(f, r) ==
    IF r.err # NoErr
    THEN [f EXCEPT !.pc = "done",
                   !.gotTeams = <<r>>,
                   !.trace = Append(@, Step("FetchTeams", FALSE)),
                   !.ret = <<Result(FALSE, NilUser, r.err)>>]
    ELSE [f EXCEPT !.pc = "user",
                   !.gotTeams = <<r>>,
                   !.teams = DecodeTeams(r.body).val,
                   !.opened = @ \cup {"teams"},
                   !.closed = @ \cup {"teams"},
                   !.trace = Append(@, Step("FetchTeams", DecodeTeams(r.body).err = NoErr))]

\* GET /user/teams, decode into teams, close the body
DoFetchTeams(f, r) ==
    IF r.err # NoErr
    THEN [f EXCEPT !.pc = "done",
                   !.gotTeams = <<r>>,
                   !.trace = Append(@, Step("FetchTeams", FALSE)),
                   !.ret = <<Result(FALSE, NilUser, r.err)>>]
    ELSE LET dec == DecodeTeams(r.body)
         IN  IF dec.err # NoErr
             THEN [f EXCEPT !.pc = "done",
                            !.gotTeams = <<r>>,
                            !.opened = @ \cup {"teams"},
                            !.trace = Append(@, Step("FetchTeams", FALSE)),
                            !.ret = <<Result(FALSE, NilUser, dec.err)>>]
             ELSE [f EXCEPT !.pc = "user",
                            !.gotTeams = <<r>>,
                            !.teams = dec.val,
                            !.opened = @ \cup {"teams"},
                            !.closed = @ \cup {"teams"},
                            !.trace = Append(@, Step("FetchTeams", TRUE))]

\* DoFetchUser with a failed profile fetch falling through to the decision
DoFetchUserFallThrough(f, r) ==
    [f EXCEPT !.pc = "decide",
              !.gotUser = <<r>>,
              !.user = IF r.err # NoErr THEN <<ZeroUser>>
                       ELSE <<DecodeUser(ZeroUser, r.body).val>>,
              !.opened = IF r.err # NoErr THEN @ ELSE @ \cup {"user"},
              !.closed = IF r.err # NoErr THEN @ ELSE @ \cup {"user"},
              !.trace = Append(@, Step("FetchUser",
                            r.err = NoErr /\ DecodeUser(ZeroUser, r.body).err = NoErr))]

\* DoFetchUser returning the allocated user together with the error
DoFetchUserKeepUser(f, r) ==
    LET err == IF r.err # NoErr THEN r.err ELSE DecodeUser(ZeroUser, r.body).err
        val == IF r.err # NoErr THEN ZeroUser ELSE DecodeUser(ZeroUser, r.body).val
    IN  [f EXCEPT !.pc = IF err # NoErr THEN "done" ELSE "decide",
                  !.gotUser = <<r>>,
                  !.user = <<val>>,
                  !.opened = IF r.err # NoErr THEN @ ELSE @ \cup {"user"},
                  !.closed = IF err # NoErr THEN @ ELSE @ \cup {"user"},
                  !.trace = Append(@, Step("FetchUser", err = NoErr)),
                  !.ret = IF err # NoErr THEN <<Result(FALSE, <<val>>, err)>> ELSE @]

\* user = new(User), GET /user, decode into user, close the body
DoFetchUser(f, r) ==
    IF r.err # NoErr
    THEN [f EXCEPT !.pc = "done",
                   !.gotUser = <<r>>,
                   !.user = <<ZeroUser>>,
                   !.trace = Append(@, Step("FetchUser", FALSE)),
                   !.ret = <<Result(FALSE, NilUser, r.err)>>]
    ELSE LET dec == DecodeUser(ZeroUser, r.body)
         IN  IF dec.err # NoErr
             THEN [f EXCEPT !.pc = "done",
                            !.gotUser = <<r>>,
                            !.user = <<dec.val>>,
                            !.opened = @ \cup {"user"},
                            !.trace = Append(@, Step("FetchUser", FALSE)),
                            !.ret = <<Result(FALSE, NilUser, dec.err)>>]
             ELSE [f EXCEPT !.pc = "decide",
                            !.gotUser = <<r>>,
                            !.user = <<dec.val>>,
                            !.opened = @ \cup {"user"},
                            !.closed = @ \cup {"user"},
                            !.trace = Append(@, Step("FetchUser", TRUE))]

\* IsRequiredTeam with || in place of &&
IsRequiredTeamEither(t) == t.Name = Team \/ t.Organization.Login = Organization

\* the condition of the if inside the loop over teams
IsRequiredTeam(t) == t.Name = Team /\ t.Organization.Login = Organization

\* BelongsFrom giving up after the first entry
BelongsFirstOnly(teams, i) == i <= Len(teams) /\ IsRequiredTeam(teams[i])

\* the loop over teams from index i: TRUE on the first entry that matches
RECURSIVE BelongsFrom(_, _)
BelongsFrom(teams, i) ==
    IF i > Len(teams) THEN FALSE
    ELSE IF IsRequiredTeam(teams[i]) THEN TRUE
    ELSE BelongsFrom(teams, i + 1)

\* the loop and the two returns that end CheckPermission
DoDecide(f) ==
    [f EXCEPT !.pc = "done",
              !.trace = Append(@, Step("Decide", TRUE)),
              !.ret = <<Result(BelongsFrom(f.teams, 1), f.user, NoErr)>>]

(* ------------------------------- actions ------------------------------- *)

\* a caller invokes c.AuthCodeURL(state)
CallAuthCodeURL(g, state, maxCalls) ==
    /\ frame[g].pc = "idle"
    /\ calls < maxCalls
    /\ frame' = [frame EXCEPT ![g] =
                    [IdleFrame EXCEPT !.pc = "init", !.op = "AuthCodeURL", !.arg = state]]
    /\ calls' = calls + 1
    /\ UNCHANGED <<descs, seen, fieldsSeen, pastCodes>>

\* a caller invokes c.CheckPermission(code)
CallCheckPermission(g, code, maxCalls) ==
    /\ frame[g].pc = "idle"
    /\ calls < maxCalls
    /\ frame' = [frame EXCEPT ![g] =
                    [IdleFrame EXCEPT !.pc = "init", !.op = "CheckPermission", !.arg = code]]
    /\ calls' = calls + 1
    /\ UNCHANGED <<descs, seen, fieldsSeen, pastCodes>>

\* where a call continues after the lazy initialisation
AfterInit(f) == IF f.op = "AuthCodeURL" THEN "url" ELSE "exchange"

\* if c.cfg == nil
LazyInitCheck(g) ==
    /\ frame[g].pc = "init"
    /\ frame' = [frame EXCEPT ![g].pc =
                    IF CfgIsNil(g) THEN "build" ELSE AfterInit(frame[g])]
    /\ UNCHANGED <<descs, seen, fieldsSeen, calls, pastCodes>>

\* c.cfg = &oauth2.Config{...}
LazyInitStore(g) ==
    /\ frame[g].pc = "build"
    /\ descs' = Append(descs, [content |-> NewOAuth2Config, by |-> g])
    /\ seen' = [seen EXCEPT ![g] = Len(descs) + 1]
    /\ fieldsSeen' = [fieldsSeen EXCEPT ![g] = @ \cup {Len(descs) + 1}]
    /\ frame' = [frame EXCEPT ![g].pc = AfterInit(frame[g]),
                              ![g].built = @ + 1]
    /\ UNCHANGED <<calls, pastCodes>>

\* return c.cfg.AuthCodeURL(state, oauth2.AccessTypeOnline)
ReturnAuthCodeURL(g) ==
    /\ frame[g].pc = "url"
    /\ \E d \in ReadCfg(g) :
          frame' = [frame EXCEPT ![g] = DoAuthCodeURL(@, d)]
    /\ UNCHANGED <<descs, seen, fieldsSeen, calls, pastCodes>>

\* token, err := c.cfg.Exchange(oauth2.NoContext, code)
Exchange(g) ==
    /\ frame[g].pc = "exchange"
    /\ \E d \in ReadCfg(g), r \in ExchangeResponses :
          frame' = [frame EXCEPT ![g] = DoExchange(@, d, r)]
    /\ UNCHANGED <<descs, seen, fieldsSeen, calls, pastCodes>>

\* the team-list fetch
FetchTeams(g, maxTeams) ==
    /\ frame[g].pc = "teams"
    /\ \E r \in Responses(TeamBodies(maxTeams)) :
          frame' = [frame EXCEPT ![g] = DoFetchTeams(@, r)]
    /\ UNCHANGED <<descs, seen, fieldsSeen, calls, pastCodes>>

\* the profile fetch
FetchUser(g) ==
    /\ frame[g].pc = "user"
    /\ \E r \in Responses(UserBodies) :
          frame' = [frame EXCEPT ![g] = DoFetchUser(@, r)]
    /\ UNCHANGED <<descs, seen, fieldsSeen, calls, pastCodes>>

\* the membership check
Decide(g) ==
    /\ frame[g].pc = "decide"
    /\ frame' = [frame EXCEPT ![g] = DoDecide(@)]
    /\ UNCHANGED <<descs, seen, fieldsSeen, calls, pastCodes>>

\* the call returns to its caller; its locals are gone
Return(g) ==
    /\ frame[g].pc = "done"
    /\ pastCodes' = IF frame[g].op = "CheckPermission"
                    THEN pastCodes \cup {frame[g].arg} ELSE pastCodes
    /\ frame' = [frame EXCEPT ![g] = IdleFrame]
    /\ UNCHANGED <<descs, seen, fieldsSeen, calls>>

\* a store to c.cfg made by another goroutine becomes visible to g
ObserveStore(g) ==
    /\ seen[g] < Len(descs)
    /\ seen' = [seen EXCEPT ![g] = @ + 1]
    /\ UNCHANGED <<descs, fieldsSeen, frame, calls, pastCodes>>

\* the field writes of a stored object become visible to g
ObserveFields(g) ==
    /\ \E d \in 1..Len(descs) :
          /\ d \notin fieldsSeen[g]
          /\ fieldsSeen' = [fieldsSeen EXCEPT ![g] = @ \cup {d}]
    /\ UNCHANGED <<descs, seen, frame, calls, pastCodes>>

(* --------------------------- specifications ---------------------------- *)

\* one goroutine makes every call on the Config, one after the other
SeqGoroutine == "g1"

Next ==
    \/ \E s \in States : CallAuthCodeURL(SeqGoroutine, s, MaxCalls)
    \/ \E c \in Codes : CallCheckPermission(SeqGoroutine, c, MaxCalls)
    \/ LazyInitCheck(SeqGoroutine)
    \/ LazyInitStore(SeqGoroutine)
    \/ ReturnAuthCodeURL(SeqGoroutine)
    \/ Exchange(SeqGoroutine)
    \/ FetchTeams(SeqGoroutine, MaxTeams)
    \/ FetchUser(SeqGoroutine)
    \/ Decide(SeqGoroutine)
    \/ Return(SeqGoroutine)

Spec == Init /\ [][Next]_vars

\* the goroutines share the Config and call it concurrently
NextConc ==
    \E g \in Goroutines :
        \/ \E s \in States : CallAuthCodeURL(g, s, ConcMaxCalls)
        \/ \E c \in Codes : CallCheckPermission(g, c, ConcMaxCalls)
        \/ LazyInitCheck(g)
        \/ LazyInitStore(g)
        \/ ReturnAuthCodeURL(g)
        \/ Exchange(g)
        \/ FetchTeams(g, ConcMaxTeams)
        \/ FetchUser(g)
        \/ Decide(g)
        \/ Return(g)
        \/ ObserveStore(g)
        \/ ObserveFields(g)

SpecConc == Init /\ [][NextConc]_vars

(* ------------------- vocabulary of the properties --------------------- *)

\* the frames of the calls to CheckPermission
CheckFrames == { frame[g] : g \in { h \in Goroutines : frame[h].op = "CheckPermission" } }

\* the CheckPermission calls that have executed a return statement
ReturnedFrames == { f \in CheckFrames : f.pc = "done" }

\* the exchange of call f was attempted and failed / succeeded
ExchangeFailed(f) == f.exch # <<>> /\ f.exch[1].err # NoErr
ExchangeSucceeded(f) == f.exch # <<>> /\ f.exch[1].err = NoErr

\* response r carries a body that is JSON of the shape the call decodes
TeamsDecodable(r) == r.err = NoErr /\ r.body.kind \in {"array", "null"}
UserDecodable(r) == r.err = NoErr /\ r.body.kind \in {"object", "null"}

\* the GET of call f was issued and it, or the decoding of its body, failed
TeamsFetchFailed(f) == f.gotTeams # <<>> /\ ~TeamsDecodable(f.gotTeams[1])
UserFetchFailed(f) == f.gotUser # <<>> /\ ~UserDecodable(f.gotUser[1])
TeamsFetchSucceeded(f) == f.gotTeams # <<>> /\ TeamsDecodable(f.gotTeams[1])
UserFetchSucceeded(f) == f.gotUser # <<>> /\ UserDecodable(f.gotUser[1])

AllSucceeded(f) ==
    ExchangeSucceeded(f) /\ TeamsFetchSucceeded(f) /\ UserFetchSucceeded(f)

\* the team objects of the JSON the provider sent to call f
SentTeams(f) ==
    IF f.gotTeams[1].body.kind = "array" THEN f.gotTeams[1].body.items ELSE <<>>

\* JSON team object o names the required team of the required organization
SentMatch(o) == o.name = Team /\ o.organization.login = Organization

HasMatch(f) == \E i \in DOMAIN SentTeams(f) : SentMatch(SentTeams(f)[i])

\* the user record the JSON profile sent to call f describes
SentUser(f) ==
    LET b == f.gotUser[1].body
    IN  IF b.kind = "object"
        THEN [Login |-> IF "login" \in DOMAIN b.obj THEN b.obj.login ELSE "",
              Name |-> IF "name" \in DOMAIN b.obj THEN b.obj.name ELSE "",
              Avatar |-> IF "avatar_url" \in DOMAIN b.obj THEN b.obj.avatar_url ELSE ""]
        ELSE [Login |-> "", Name |-> "", Avatar |-> ""]

\* the values call f returned
Ret(f) == f.ret[1]

(* ------------------------------ properties ----------------------------- *)

\* C1: when the exchange and both fetches and decodes succeed and some entry
\* of the team list has name Team and organization login Organization, the
\* call returns ok = true, the user decoded from the profile, and a nil error,
\* wherever the entry stands in the list.
C1_MemberAuthorized ==
    \A f \in ReturnedFrames :
        (AllSucceeded(f) /\ HasMatch(f))
            => f.ret = <<Result(TRUE, <<SentUser(f)>>, NoErr)>>

\* a member whose matching entry stands between two entries that do not match
C1_Witness ==
    \E f \in ReturnedFrames :
        /\ AllSucceeded(f)
        /\ Len(SentTeams(f)) = 3
        /\ ~SentMatch(SentTeams(f)[1])
        /\ SentMatch(SentTeams(f)[2])
        /\ ~SentMatch(SentTeams(f)[3])
        /\ f.gotUser[1].body.kind = "object"
        /\ Ret(f).ok
        /\ Ret(f).user = <<[Login |-> "alice", Name |-> "Alice A",
                             Avatar |-> "http://x/a.png"]>>

\* C2: when the exchange and both fetches and decodes succeed and no single
\* entry has both the required name and the required organization, the call
\* returns ok = false, a non-nil user decoded from the profile, and a nil error.
C2_NonMemberDenied ==
    \A f \in ReturnedFrames :
        (AllSucceeded(f) /\ ~HasMatch(f))
            => f.ret = <<Result(FALSE, <<SentUser(f)>>, NoErr)>>

\* a denied call whose list has the required name in one entry and the
\* required organization in another
C2_Witness ==
    \E f \in ReturnedFrames :
        /\ AllSucceeded(f)
        /\ ~HasMatch(f)
        /\ \E i, j \in DOMAIN SentTeams(f) :
              /\ SentTeams(f)[i].name = Team
              /\ SentTeams(f)[j].organization.login = Organization
        /\ ~Ret(f).ok
        /\ Ret(f).user # NilUser
        /\ Ret(f).err = NoErr

\* C3: a failed exchange ends the call with (false, nil, the exchange error)
\* and neither GET is issued.
C3_ExchangeFailure ==
    \A f \in CheckFrames :
        ExchangeFailed(f) =>
            /\ f.pc = "done"
            /\ f.ret = <<Result(FALSE, NilUser, f.exch[1].err)>>
            /\ f.gotTeams = <<>>
            /\ f.gotUser = <<>>

C3_Witness ==
    \E f \in ReturnedFrames :
        ExchangeFailed(f) /\ Ret(f).err = "oauth2: cannot fetch token"

\* C4: after a successful exchange, a team-list GET that fails or whose body
\* does not decode ends the call with (false, nil, non-nil error) and the
\* profile GET is not issued.
C4_TeamsFailure ==
    \A f \in CheckFrames :
        (ExchangeSucceeded(f) /\ TeamsFetchFailed(f)) =>
            /\ f.pc = "done"
            /\ ~Ret(f).ok
            /\ Ret(f).user = NilUser
            /\ Ret(f).err # NoErr
            /\ f.gotUser = <<>>

\* a call ended by a team-list body that is not JSON
C4_Witness ==
    \E f \in ReturnedFrames :
        /\ ExchangeSucceeded(f)
        /\ f.gotTeams # <<>>
        /\ f.gotTeams[1].err = NoErr
        /\ f.gotTeams[1].body.kind = "malformed"
        /\ Ret(f).err # NoErr

\* C5: when the team list was fetched and decoded and the profile GET fails
\* or its body does not decode, the call returns (false, nil, non-nil error)
\* whatever the team list holds.
C5_UserFailure ==
    \A f \in CheckFrames :
        (TeamsFetchSucceeded(f) /\ UserFetchFailed(f)) =>
            /\ f.pc = "done"
            /\ ~Ret(f).ok
            /\ Ret(f).user = NilUser
            /\ Ret(f).err # NoErr

\* a failed profile fetch in a call whose team list has a matching entry
C5_Witness ==
    \E f \in ReturnedFrames :
        /\ TeamsFetchSucceeded(f)
        /\ HasMatch(f)
        /\ UserFetchFailed(f)
        /\ ~Ret(f).ok

\* C6: every result is (true, non-nil, nil), (false, non-nil, nil) or
\* (false, nil, non-nil).
C6_ResultShapes ==
    \A f \in ReturnedFrames :
        /\ f.ret # <<>>
        /\ (Ret(f).user = NilUser) <=> (Ret(f).err # NoErr)
        /\ Ret(f).ok => (Ret(f).err = NoErr /\ Ret(f).user # NilUser)

\* a call whose profile body did not decode has returned
C6_Witness ==
    \E f \in ReturnedFrames :
        /\ f.gotUser # <<>>
        /\ f.gotUser[1].err = NoErr
        /\ f.gotUser[1].body.kind = "malformed"
        /\ Ret(f).user = NilUser

\* the order of the steps of a call
StepOrder == <<"Exchange", "FetchTeams", "FetchUser", "Decide">>

\* C7: a call attempts the exchange, the team-list GET, the profile GET and
\* the decision in this order, each at most once and only after the one
\* before succeeded; a failed step is the last; a call past its exchange
\* step has attempted the exchange, whatever codes earlier calls were given.
C7_StepOrder ==
    \A f \in CheckFrames :
        /\ Len(f.trace) <= Len(StepOrder)
        /\ \A i \in DOMAIN f.trace : f.trace[i].step = StepOrder[i]
        /\ \A i \in DOMAIN f.trace : i < Len(f.trace) => f.trace[i].ok
        /\ f.pc \in {"teams", "user", "decide", "done"} => Len(f.trace) >= 1
        /\ f.pc = "done" =>
              IF Ret(f).err # NoErr
              THEN ~f.trace[Len(f.trace)].ok
              ELSE Len(f.trace) = Len(StepOrder) /\ f.trace[Len(f.trace)].ok

\* a call given a code an earlier call was given has attempted the exchange
\* and has run to its decision
C7_Witness ==
    \E f \in ReturnedFrames :
        /\ f.arg \in pastCodes
        /\ f.exch # <<>>
        /\ Len(f.trace) = 4

\* C8: the descriptor is built and stored once per Config, also when the
\* first calls of concurrent callers interleave.
C8_BuiltOnce ==
    /\ Len(descs) <= 1
    /\ \A g \in Goroutines :
          frame[g].pc \in {"url", "exchange", "teams", "user", "decide", "done"}
              => Len(descs) = 1

\* C9: every stored descriptor has the content built from the Config's
\* fields and every call uses a descriptor with that content.
C9_BenignRace ==
    /\ \A i \in DOMAIN descs : descs[i].content = NewOAuth2Config
    /\ \A g \in Goroutines : frame[g].used \in { <<>>, <<NewOAuth2Config>> }

\* C10: when a call returns, every response body it obtained is closed.
C10_BodiesClosed ==
    \A f \in ReturnedFrames : f.opened \subseteq f.closed

====
